---- MODULE Spec2Model ----
(***************************************************************************)
(* RNA sequence validation (src/api/utils/validators.py, RNAValidator) and *)
(* feature extraction (src/api/services/classifier.py, RNAMLClassifier).   *)
(*                                                                         *)
(* A Python string is a sequence of one-character strings.  A call's       *)
(* argument is kept in the state as a string expression, a concatenation   *)
(* of repeated literals (<<[s |-> <<"A">>, n |-> 60]>> is "A"*60), and     *)
(* Text gives the string it denotes; the operations work on that string.   *)
(* A float that the code gets from a division is kept as the exact         *)
(* fraction [num, den].  A call that has returned leaves its value in      *)
(* result, or the class of the exception that left it in raised.           *)
(***************************************************************************)
EXTENDS Integers, Sequences, FiniteSets, TLC

VARIABLES validator, pc, call, result, raised, log,
          threads, _ml_classifier_instance, constructed, failed,
          _vectordb_instance, collection, attempts

\* The worker threads, each with the call it runs, and the module-level
\* classifier of services/classifier.py with the constructions made of it.
workers == <<threads, _ml_classifier_instance, constructed, failed>>

\* The module-level vector store of services/vectordb.py, the identifiers
\* the index holds, and the constructions attempted.
vectordb == <<_vectordb_instance, collection, attempts>>

vars == <<validator, pc, call, result, raised, log, workers, vectordb>>

(***************************************************************************)
(* Bounds of the model.                                                    *)
(***************************************************************************)
\* Longest string whose characters are all enumerated.
MaxLen == 3
\* Most calls kept in the log of returned calls.
MaxLog == 3

(***************************************************************************)
(* Characters and strings.                                                 *)
(***************************************************************************)
\* The characters the enumerated inputs are made of.
Chars == {"A", "U", "G", "C", "a", "t", "X", " "}

\* Code points (ord) of the characters of the model.
Ord(c) ==
  CASE c = " " -> 32
    [] c = "A" -> 65
    [] c = "C" -> 67
    [] c = "G" -> 71
    [] c = "T" -> 84
    [] c = "U" -> 85
    [] c = "X" -> 88
    [] c = "a" -> 97
    [] c = "t" -> 116

\* str.isspace of one character: what str.strip() removes.
IsSpace(c) == c \in {" ", "\t", "\n", "\r", "\f"}

\* UpperChar, were the case swapped.
UpperChar_SwapCase(c) ==
  CASE c = "a" -> "A"
    [] c = "t" -> "T"
    [] c = "A" -> "a"
    [] c = "T" -> "t"
    [] OTHER -> c

\* str.upper of one character.
UpperChar(c) ==
  CASE c = "a" -> "A"
    [] c = "t" -> "T"
    [] OTHER -> c

\* The function f on 1..n as a sequence value.
AsSeq(f, n) == SubSeq(f, 1, n)

\* str.upper.
Upper(s) == AsSeq([i \in 1..Len(s) |-> UpperChar(s[i])], Len(s))

RECURSIVE LStripIndex(_, _)
\* Index of the first character of s, from i on, that is no whitespace.
LStripIndex(s, i) ==
  IF i > Len(s) \/ ~IsSpace(s[i]) THEN i ELSE LStripIndex(s, i + 1)

RECURSIVE RStripIndex(_, _)
\* Index of the last character of s, up to i, that is no whitespace.
RStripIndex(s, i) ==
  IF i < 1 \/ ~IsSpace(s[i]) THEN i ELSE RStripIndex(s, i - 1)

\* Strip, were nothing trimmed.
Strip_NoTrim(s) == s

\* str.strip: s without its leading and trailing whitespace.
Strip(s) ==
  LET lo == LStripIndex(s, 1)
      hi == RStripIndex(s, Len(s))
  IN  IF lo > hi THEN <<>> ELSE SubSeq(s, lo, hi)

\* The literal s repeated n times (Python's s * n).
Repeat(s, n) ==
  AsSeq([i \in 1..(Len(s) * n) |-> s[((i - 1) % Len(s)) + 1]], Len(s) * n)

RECURSIVE Text(_)
\* The string a string expression denotes.
Text(e) == IF e = <<>> THEN <<>> ELSE Repeat(e[1].s, e[1].n) \o Text(Tail(e))

\* str.count of a one-character string.
Count(s, c) == Cardinality({i \in 1..Len(s) : s[i] = c})

RECURSIVE SortedChars_Descending(_)
\* SortedChars, were the order reversed.
SortedChars_Descending(S) ==
  IF S = {} THEN <<>>
  ELSE LET m == CHOOSE x \in S : \A y \in S : Ord(x) >= Ord(y)
       IN  <<m>> \o SortedChars_Descending(S \ {m})

RECURSIVE SortedChars(_)
\* sorted() of a set of characters: by code point.
SortedChars(S) ==
  IF S = {} THEN <<>>
  ELSE LET m == CHOOSE x \in S : \A y \in S : Ord(x) <= Ord(y)
       IN  <<m>> \o SortedChars(S \ {m})

(***************************************************************************)
(* Fractions.                                                              *)
(***************************************************************************)
Frac(n, d) == [num |-> n, den |-> d]
FracLess(a, b) == a.num * b.den < b.num * a.den
FracEq(a, b) == a.num * b.den = b.num * a.den

\* f"{x:.3f}": x in thousandths, rounded.
Format3f(x) == (2 * 1000 * x.num + x.den) \div (2 * x.den)

(***************************************************************************)
(* RNAValidator.                                                           *)
(***************************************************************************)
\* Longest run of one character that is no anomaly (the literal 50).
RepeatThreshold == 50

\* RNAValidator.__init__: the fields of a new validator.
RNAValidator ==
  [valid_bases    |-> {"A", "U", "G", "C"},
   min_length     |-> 1,
   max_length     |-> 50000,
   min_gc_content |-> Frac(0, 1),
   max_gc_content |-> Frac(1, 1)]

\* The error messages, by the text's fixed part and the values it formats.
ErrNone == [msg |-> "The sequence is None"]
ErrNotString == [msg |-> "The sequence must be a string"]
ErrEmpty == [msg |-> "An empty sequence is invalid"]
ErrTooShort(min) == [msg |-> "The sequence length is too short", min |-> min]
ErrTooLong(max) == [msg |-> "The sequence length is too long", max |-> max]
ErrInvalidBases(bases) == [msg |-> "Invalid bases are included", bases |-> bases]
ErrRepeat(n) == [msg |-> "An abnormal repetitive sequence was detected", n |-> n]
ErrGC(gc, lo, hi) ==
  [msg |-> "The GC content is out of range", gc |-> Format3f(gc), lo |-> lo, hi |-> hi]

\* RNAValidator._calculate_gc_content.
_calculate_gc_content(sequence) ==
  IF Len(sequence) = 0 THEN Frac(0, 1)
  ELSE LET g_count == Count(sequence, "G")
           c_count == Count(sequence, "C")
       IN  Frac(g_count + c_count, Len(sequence))

\* RepeatStep, were current_repeat not reset where a run ends.
RepeatStep_NoReset(sequence, i, st) ==
  IF sequence[i] = sequence[i - 1]
  THEN [current_repeat |-> st.current_repeat + 1,
        max_repeat     |-> IF st.current_repeat + 1 > st.max_repeat
                           THEN st.current_repeat + 1 ELSE st.max_repeat]
  ELSE st

\* The body of the scan's loop at index i (1-based) of sequence.
RepeatStep(sequence, i, st) ==
  IF sequence[i] = sequence[i - 1]
  THEN [current_repeat |-> st.current_repeat + 1,
        max_repeat     |-> IF st.current_repeat + 1 > st.max_repeat
                           THEN st.current_repeat + 1 ELSE st.max_repeat]
  ELSE [current_repeat |-> 1, max_repeat |-> st.max_repeat]

RECURSIVE RepeatLoop(_, _, _, _)
\* The scan's loop over the indices lo..hi in increasing order, from the loop
\* state st: the indices of the lower half first, then those of the upper half.
RepeatLoop(sequence, lo, hi, st) ==
  IF lo > hi THEN st
  ELSE IF lo = hi THEN RepeatStep(sequence, lo, st)
  ELSE LET mid  == (lo + hi) \div 2
           left == RepeatLoop(sequence, lo, mid, st)
       IN  IF left.max_repeat >= 1
           THEN RepeatLoop(sequence, mid + 1, hi, left)
           ELSE left

\* RNAValidator._check_repetitive_sequence.
_check_repetitive_sequence(sequence) ==
  IF Len(sequence) = 0 THEN 0
  ELSE RepeatLoop(sequence, 2, Len(sequence),
                  [current_repeat |-> 1, max_repeat |-> 1]).max_repeat

\* LengthErrors, were a string of max_length characters too long already.
LengthErrors_AtMaximum(self, cleaned_sequence) ==
  (IF Len(cleaned_sequence) < self.min_length
   THEN <<ErrTooShort(self.min_length)>> ELSE <<>>)
  \o (IF Len(cleaned_sequence) >= self.max_length
      THEN <<ErrTooLong(self.max_length)>> ELSE <<>>)

\* validate_rna_sequence, the length check.
LengthErrors(self, cleaned_sequence) ==
  (IF Len(cleaned_sequence) < self.min_length
   THEN <<ErrTooShort(self.min_length)>> ELSE <<>>)
  \o (IF Len(cleaned_sequence) > self.max_length
      THEN <<ErrTooLong(self.max_length)>> ELSE <<>>)

\* validate_rna_sequence, invalid_bases: set(cleaned_sequence) - self.valid_bases.
InvalidBases(self, cleaned_sequence) ==
  {cleaned_sequence[i] : i \in 1..Len(cleaned_sequence)} \ self.valid_bases

\* validate_rna_sequence, the valid base check.
AlphabetErrors(self, cleaned_sequence) ==
  LET invalid_bases == InvalidBases(self, cleaned_sequence)
  IN  IF invalid_bases # {}
      THEN <<ErrInvalidBases(SortedChars(invalid_bases))>> ELSE <<>>

\* RepeatErrors, were a run of the threshold's length an anomaly already.
RepeatErrors_AtThreshold(self, cleaned_sequence) ==
  IF Len(cleaned_sequence) > 0
  THEN LET max_repeat_length == _check_repetitive_sequence(cleaned_sequence)
       IN  IF max_repeat_length >= RepeatThreshold
           THEN <<ErrRepeat(max_repeat_length)>> ELSE <<>>
  ELSE <<>>

\* validate_rna_sequence, the check for consecutive identical bases.
RepeatErrors(self, cleaned_sequence) ==
  IF Len(cleaned_sequence) > 0
  THEN LET max_repeat_length == _check_repetitive_sequence(cleaned_sequence)
       IN  IF max_repeat_length > RepeatThreshold
           THEN <<ErrRepeat(max_repeat_length)>> ELSE <<>>
  ELSE <<>>

\* GcErrors, were the GC content checked whatever the alphabet check found.
GcErrors_Unguarded(self, cleaned_sequence) ==
  IF Len(cleaned_sequence) > 0
  THEN LET gc_content == _calculate_gc_content(cleaned_sequence)
       IN  IF FracLess(gc_content, self.min_gc_content)
              \/ FracLess(self.max_gc_content, gc_content)
           THEN <<ErrGC(gc_content, self.min_gc_content, self.max_gc_content)>>
           ELSE <<>>
  ELSE <<>>

\* validate_rna_sequence, the GC content check.
GcErrors(self, cleaned_sequence) ==
  IF Len(cleaned_sequence) > 0 /\ InvalidBases(self, cleaned_sequence) = {}
  THEN LET gc_content == _calculate_gc_content(cleaned_sequence)
       IN  IF FracLess(gc_content, self.min_gc_content)
              \/ FracLess(self.max_gc_content, gc_content)
           THEN <<ErrGC(gc_content, self.min_gc_content, self.max_gc_content)>>
           ELSE <<>>
  ELSE <<>>

\* validate_rna_sequence, cleaned_sequence: the argument trimmed and uppercased.
Normalize(s) == Upper(Strip(s))

\* CollectErrors, were the alphabet checked before the length.
CollectErrors_AlphabetFirst(self, cleaned_sequence) ==
  AlphabetErrors(self, cleaned_sequence)
  \o LengthErrors(self, cleaned_sequence)
  \o RepeatErrors(self, cleaned_sequence)
  \o GcErrors(self, cleaned_sequence)

\* validate_rna_sequence, the checks of the normalized string, each appending
\* to errors in turn.
CollectErrors(self, cleaned_sequence) ==
  LengthErrors(self, cleaned_sequence)
  \o AlphabetErrors(self, cleaned_sequence)
  \o RepeatErrors(self, cleaned_sequence)
  \o GcErrors(self, cleaned_sequence)

\* Outcome, were the first element of the pair not computed from errors.
Outcome_AlwaysValid(errors) == [is_valid |-> TRUE, errors |-> errors]

\* validate_rna_sequence, the returned pair: len(errors) == 0, errors.
Outcome(errors) == [is_valid |-> Len(errors) = 0, errors |-> errors]

\* RNAValidator.validate_rna_sequence.  sequence is a Python value:
\* [type |-> "NoneType"], [type |-> "int", value |-> n] or
\* [type |-> "str", value |-> the string].
validate_rna_sequence(self, sequence) ==
  IF sequence.type = "NoneType"
  THEN [is_valid |-> FALSE, errors |-> <<ErrNone>>]
  ELSE IF sequence.type # "str"
  THEN [is_valid |-> FALSE, errors |-> <<ErrNotString>>]
  ELSE IF Strip(sequence.value) = <<>>
  THEN [is_valid |-> FALSE, errors |-> <<ErrEmpty>>]
  ELSE LET cleaned_sequence == Normalize(sequence.value)
       IN  Outcome(CollectErrors(self, cleaned_sequence))

(***************************************************************************)
(* RNAValidator.get_sequence_statistics.                                   *)
(***************************************************************************)
\* An exception that leaves the call, by the name of its class.
Raised(class) == [exception |-> class]

\* The empty dict.
EmptyDict == <<>>

\* bool(x) of a Python value: None, 0 and "" are false.
Truthy(x) ==
  CASE x.type = "NoneType" -> FALSE
    [] x.type = "int" -> x.value # 0
    [] x.type = "str" -> Len(x.value) > 0

\* StatisticsOf, were T counted in the place of U.
StatisticsOf_CountsT(cleaned) ==
  LET length == Len(cleaned)
      base_counts == [A |-> Count(cleaned, "A"), U |-> Count(cleaned, "T"),
                      G |-> Count(cleaned, "G"), C |-> Count(cleaned, "C")]
      gc_content == Frac(base_counts.G + base_counts.C, length)
      au_content == Frac(base_counts.A + base_counts.U, length)
  IN  [length            |-> length,
       base_counts       |-> base_counts,
       base_frequencies  |-> [base \in DOMAIN base_counts |->
                                Frac(base_counts[base], length)],
       gc_content        |-> gc_content,
       au_content        |-> au_content,
       max_repeat_length |-> _check_repetitive_sequence(cleaned)]

\* StatisticsOf, were au_content taken from A and G.
StatisticsOf_AuFromPurines(cleaned) ==
  LET length == Len(cleaned)
      base_counts == [A |-> Count(cleaned, "A"), U |-> Count(cleaned, "U"),
                      G |-> Count(cleaned, "G"), C |-> Count(cleaned, "C")]
      gc_content == Frac(base_counts.G + base_counts.C, length)
      au_content == Frac(base_counts.A + base_counts.G, length)
  IN  [length            |-> length,
       base_counts       |-> base_counts,
       base_frequencies  |-> [base \in DOMAIN base_counts |->
                                Frac(base_counts[base], length)],
       gc_content        |-> gc_content,
       au_content        |-> au_content,
       max_repeat_length |-> _check_repetitive_sequence(cleaned)]

\* StatisticsOf, were length the number of recognized bases.
StatisticsOf_LengthOfBases(cleaned) ==
  LET length == Cardinality({i \in 1..Len(cleaned) :
                                  cleaned[i] \in {"A", "U", "G", "C"}})
      base_counts == [A |-> Count(cleaned, "A"), U |-> Count(cleaned, "U"),
                      G |-> Count(cleaned, "G"), C |-> Count(cleaned, "C")]
      gc_content == Frac(base_counts.G + base_counts.C, length)
      au_content == Frac(base_counts.A + base_counts.U, length)
  IN  [length            |-> length,
       base_counts       |-> base_counts,
       base_frequencies  |-> [base \in DOMAIN base_counts |->
                                Frac(base_counts[base], length)],
       gc_content        |-> gc_content,
       au_content        |-> au_content,
       max_repeat_length |-> _check_repetitive_sequence(cleaned)]

\* get_sequence_statistics, the dict returned for the uppercased string.
StatisticsOf(cleaned) ==
  LET length == Len(cleaned)
      base_counts == [A |-> Count(cleaned, "A"), U |-> Count(cleaned, "U"),
                      G |-> Count(cleaned, "G"), C |-> Count(cleaned, "C")]
      gc_content == Frac(base_counts.G + base_counts.C, length)
      au_content == Frac(base_counts.A + base_counts.U, length)
  IN  [length            |-> length,
       base_counts       |-> base_counts,
       base_frequencies  |-> [base \in DOMAIN base_counts |->
                                Frac(base_counts[base], length)],
       gc_content        |-> gc_content,
       au_content        |-> au_content,
       max_repeat_length |-> _check_repetitive_sequence(cleaned)]

\* RNAValidator.get_sequence_statistics.  sequence is a Python value; a value
\* that is true and no string has no upper().
get_sequence_statistics(self, sequence) ==
  IF ~Truthy(sequence) THEN EmptyDict
  ELSE IF sequence.type # "str" THEN Raised("AttributeError")
  ELSE LET cleaned == Upper(sequence.value)
       IN  IF Len(cleaned) = 0 THEN EmptyDict
           ELSE StatisticsOf(cleaned)

(***************************************************************************)
(* RNAMLClassifier._extract_features.                                      *)
(***************************************************************************)
\* dimers, were AU and AG listed the other way round.
dimers_Swapped ==
  <<<<"A", "A">>, <<"A", "G">>, <<"A", "U">>, <<"A", "C">>, <<"U", "U">>,
    <<"U", "G">>, <<"U", "C">>, <<"G", "G">>, <<"G", "C">>, <<"C", "C">>>>

\* The 2-mers whose frequencies are features, in the order of the list.
dimers ==
  <<<<"A", "A">>, <<"A", "U">>, <<"A", "G">>, <<"A", "C">>, <<"U", "U">>,
    <<"U", "G">>, <<"U", "C">>, <<"G", "G">>, <<"G", "C">>, <<"C", "C">>>>

RECURSIVE DimerLoop_NonOverlapping(_, _, _, _)
\* DimerLoop, were a matched pair skipped over, as str.count does.
DimerLoop_NonOverlapping(sequence, dimer, i, count) ==
  IF i >= Len(sequence) - 1 THEN count
  ELSE IF SubSeq(sequence, i + 1, i + 2) = dimer
       THEN DimerLoop_NonOverlapping(sequence, dimer, i + 2, count + 1)
       ELSE DimerLoop_NonOverlapping(sequence, dimer, i + 1, count)

RECURSIVE DimerLoop(_, _, _, _)
\* The inner loop of the 2-mer count, for i in range(len(sequence) - 1), from
\* index i (0-based) with count so far: the slice sequence[i:i+2] is compared.
DimerLoop(sequence, dimer, i, count) ==
  IF i >= Len(sequence) - 1 THEN count
  ELSE DimerLoop(sequence, dimer, i + 1,
                 IF SubSeq(sequence, i + 1, i + 2) = dimer THEN count + 1 ELSE count)

\* DimerFreq, were the count divided by length - 1 whatever the length.
DimerFreq_Unguarded(sequence, dimer) ==
  LET count == DimerLoop(sequence, dimer, 0, 0)
      length == Len(sequence)
  IN  Frac(count, length - 1)

\* The frequency appended to dimer_freqs for one 2-mer.
DimerFreq(sequence, dimer) ==
  LET count == DimerLoop(sequence, dimer, 0, 0)
      length == Len(sequence)
  IN  IF length > 1 THEN Frac(count, length - 1) ELSE Frac(0, 1)

\* np.zeros(n).
Zeros(n) == [i \in 1..n |-> Frac(0, 1)]

\* _extract_features, were the frequencies taken over the recognized bases.
_extract_features_OverBases(raw) ==
  LET sequence == Upper(raw)
      length == Len(sequence)
  IN  IF length = 0 THEN Zeros(20)
      ELSE LET a_count == Count(sequence, "A")
               u_count == Count(sequence, "U")
               g_count == Count(sequence, "G")
               c_count == Count(sequence, "C")
               bases == IF a_count + u_count + g_count + c_count = 0 THEN 1
                        ELSE a_count + u_count + g_count + c_count
               a_freq == Frac(a_count, bases)
               u_freq == Frac(u_count, bases)
               g_freq == Frac(g_count, bases)
               c_freq == Frac(c_count, bases)
               gc_content == Frac(g_count + c_count, length)
               au_ratio == Frac(a_count + u_count, length)
               purine_ratio == Frac(a_count + g_count, length)
               pyrimidine_ratio == Frac(u_count + c_count, length)
               dimer_freqs == [k \in 1..Len(dimers) |-> DimerFreq(sequence, dimers[k])]
           IN  <<Frac(length, 1), a_freq, u_freq, g_freq, c_freq,
                 gc_content, au_ratio, purine_ratio, pyrimidine_ratio>>
               \o dimer_freqs

\* RNAMLClassifier._extract_features: the feature vector of a string.
_extract_features(raw) ==
  LET sequence == Upper(raw)
      length == Len(sequence)
  IN  IF length = 0 THEN Zeros(20)
      ELSE LET a_count == Count(sequence, "A")
               u_count == Count(sequence, "U")
               g_count == Count(sequence, "G")
               c_count == Count(sequence, "C")
               a_freq == Frac(a_count, length)
               u_freq == Frac(u_count, length)
               g_freq == Frac(g_count, length)
               c_freq == Frac(c_count, length)
               gc_content == Frac(g_count + c_count, length)
               au_ratio == Frac(a_count + u_count, length)
               purine_ratio == Frac(a_count + g_count, length)
               pyrimidine_ratio == Frac(u_count + c_count, length)
               dimer_freqs == [k \in 1..Len(dimers) |-> DimerFreq(sequence, dimers[k])]
           IN  <<Frac(length, 1), a_freq, u_freq, g_freq, c_freq,
                 gc_content, au_ratio, purine_ratio, pyrimidine_ratio>>
               \o dimer_freqs

(***************************************************************************)
(* RNAMLClassifier.get_feature_importance.                                 *)
(***************************************************************************)
\* A feature name is kept as the pieces it is written from: 'AA_freq', from
\* f'{dimer}_freq', is <<"A", "A", "_freq">>.

\* The 2-mers of the list the names are formatted from.
name_dimers ==
  <<<<"A", "A">>, <<"A", "U">>, <<"A", "G">>, <<"A", "C">>, <<"U", "U">>,
    <<"U", "G">>, <<"U", "C">>, <<"G", "G">>, <<"G", "C">>, <<"C", "C">>>>

\* get_feature_importance, feature_names.
feature_names ==
  <<<<"length">>, <<"A", "_freq">>, <<"U", "_freq">>, <<"G", "_freq">>,
    <<"C", "_freq">>, <<"G", "C", "_content">>, <<"A", "U", "_ratio">>,
    <<"purine", "_ratio">>, <<"pyrimidine", "_ratio">>>>
  \o [k \in 1..Len(name_dimers) |-> name_dimers[k] \o <<"_freq">>]

\* dict(zip(keys, values)): the pairs, as many as the shorter of the two.
Zip(keys, values) ==
  [k \in 1..(IF Len(keys) < Len(values) THEN Len(keys) ELSE Len(values)) |->
     <<keys[k], values[k]>>]

\* A trained model: feature_importances_ has one value (here its column's
\* number) per column of the training data, which are feature vectors of
\* non-empty strings.
TrainedModel ==
  [type |-> "RandomForestClassifier",
   feature_importances_ |-> [k \in 1..Len(_extract_features(<<"A">>)) |-> k]]

\* RNAMLClassifier.get_feature_importance, of a classifier with this model.
get_feature_importance(model) ==
  IF model.type = "NoneType" THEN EmptyDict
  ELSE Zip(feature_names, model.feature_importances_)

(***************************************************************************)
(* RNASequence.validate_rna_sequence (the request model's validator).       *)
(***************************************************************************)
\* RNASequence.validate_rna_sequence, of the string v: the normalized
\* string it returns, or ValueError.
RNASequence_validate_rna_sequence(v) ==
  IF Len(v) = 0 \/ Strip(v) = <<>> THEN Raised("ValueError")
  ELSE LET sequence_upper == Upper(Strip(v))
       IN  IF \E i \in 1..Len(sequence_upper) :
                 sequence_upper[i] \notin {"A", "U", "G", "C"}
           THEN Raised("ValueError")
           ELSE [returns |-> sequence_upper]

(***************************************************************************)
(* RNAValidator: the checks of names, metadata and search parameters, and  *)
(* suggest_corrections.                                                    *)
(***************************************************************************)
\* Longest sequence name (the literal 100).
NameMaxLength == 100

ErrNameNotString == [msg |-> "The sequence name must be a string"]
ErrNameTooLong == [msg |-> "The sequence name is too long (maximum 100 characters)"]
ErrNameInvalidChars == [msg |-> "The sequence name contains invalid characters"]

\* The characters of the class [<>:"/\|?*] of the regular expression: in
\* it, \| is an escaped bar.
NameSpecialChars == {"<", ">", ":", "\"", "/", "|", "?", "*"}

\* re.search of a class of characters in s.
Search(class, s) == \E i \in 1..Len(s) : s[i] \in class

\* RNAValidator.validate_sequence_name.  name is a Python value.
validate_sequence_name(self, name) ==
  IF name.type = "NoneType" THEN [is_valid |-> TRUE, errors |-> <<>>]
  ELSE IF name.type # "str"
  THEN [is_valid |-> FALSE, errors |-> <<ErrNameNotString>>]
  ELSE IF Len(Strip(name.value)) = 0 THEN [is_valid |-> TRUE, errors |-> <<>>]
  ELSE LET errors ==
             (IF Len(name.value) > NameMaxLength THEN <<ErrNameTooLong>> ELSE <<>>)
             \o (IF Search(NameSpecialChars, name.value)
                 THEN <<ErrNameInvalidChars>> ELSE <<>>)
       IN  [is_valid |-> Len(errors) = 0, errors |-> errors]

\* Longest metadata key, and longest metadata value that is a string (the
\* literals 100 and 1000).
KeyMaxLength == 100
ValueMaxLength == 1000

ErrMetadataNotDict == [msg |-> "Metadata must be in a dictionary format"]
ErrKeyNotString(key) == [msg |-> "Metadata keys must be strings", key |-> key]
ErrKeyTooLong(key) == [msg |-> "Metadata keys are too long", key |-> key]
ErrValueTooLong(key) == [msg |-> "Metadata values are too long", key |-> key]

RECURSIVE Digits(_)
\* The decimal digits of a natural number.
Digits(n) ==
  LET d == <<"0", "1", "2", "3", "4", "5", "6", "7", "8", "9">>[(n % 10) + 1]
  IN  IF n < 10 THEN <<d>> ELSE Digits(n \div 10) \o <<d>>

\* str(x) of a Python value: a string, or a number that is not negative.
Str(x) == IF x.type = "str" THEN x.value ELSE Digits(x.value)

\* ItemErrors, were a value of the greatest length too long.
ItemErrors_AtLimit(key, value) ==
  (IF key.type # "str" THEN <<ErrKeyNotString(key)>> ELSE <<>>)
  \o (IF Len(Str(key)) > KeyMaxLength THEN <<ErrKeyTooLong(key)>> ELSE <<>>)
  \o (IF value.type = "str" /\ Len(value.value) >= ValueMaxLength
      THEN <<ErrValueTooLong(key)>> ELSE <<>>)

\* validate_metadata, the body of the loop: the errors of one item.
ItemErrors(key, value) ==
  (IF key.type # "str" THEN <<ErrKeyNotString(key)>> ELSE <<>>)
  \o (IF Len(Str(key)) > KeyMaxLength THEN <<ErrKeyTooLong(key)>> ELSE <<>>)
  \o (IF value.type = "str" /\ Len(value.value) > ValueMaxLength
      THEN <<ErrValueTooLong(key)>> ELSE <<>>)

RECURSIVE MetadataErrors(_)
\* validate_metadata, the loop over metadata.items(), in the dict's order.
MetadataErrors(items) ==
  IF items = <<>> THEN <<>>
  ELSE ItemErrors(items[1].key, items[1].value) \o MetadataErrors(Tail(items))

\* RNAValidator.validate_metadata.  metadata is a Python value; a dict is
\* [type |-> "dict", items |-> its (key, value) pairs in order].
validate_metadata(self, metadata) ==
  IF metadata.type = "NoneType" THEN [is_valid |-> TRUE, errors |-> <<>>]
  ELSE IF metadata.type # "dict"
  THEN [is_valid |-> FALSE, errors |-> <<ErrMetadataNotDict>>]
  ELSE LET errors == MetadataErrors(metadata.items)
       IN  [is_valid |-> Len(errors) = 0, errors |-> errors]

\* Largest top_k validate_search_params accepts, and largest top_k the
\* request model accepts (the literals 100 and 50), and the defaults.
ParamsMaxTopK == 100
RequestMaxTopK == 50
DefaultTopK == 5
DefaultThreshold == Frac(1, 2)

ErrTopK == [msg |-> "Please specify top_k as an integer from 1 to 100"]
ErrThreshold ==
  [msg |-> "Please specify similarity_threshold as an integer from 0.0 to 1.0"]

\* isinstance(x, int): bool is a subclass of int.
IsInt(x) == x.type \in {"int", "bool"}

\* isinstance(x, (int, float)).
IsNumber(x) == x.type \in {"int", "bool", "float"}

\* The number a Python value stands for, as a fraction.
Number(x) ==
  CASE x.type = "int" -> Frac(x.value, 1)
    [] x.type = "bool" -> Frac(IF x.value THEN 1 ELSE 0, 1)
    [] x.type = "float" -> x.value

\* RNAValidator.validate_search_params.
validate_search_params(self, top_k, similarity_threshold) ==
  LET errors ==
        (IF \/ ~IsInt(top_k)
            \/ ~FracLess(Frac(0, 1), Number(top_k))
            \/ FracLess(Frac(ParamsMaxTopK, 1), Number(top_k))
         THEN <<ErrTopK>> ELSE <<>>)
        \o (IF \/ ~IsNumber(similarity_threshold)
               \/ FracLess(Number(similarity_threshold), Frac(0, 1))
               \/ FracLess(Frac(1, 1), Number(similarity_threshold))
            THEN <<ErrThreshold>> ELSE <<>>)
  IN  [is_valid |-> Len(errors) = 0, errors |-> errors]

\* VectorSearchRequest, the fields top_k and similarity_threshold of a
\* request: a field that is absent takes its default, and a number outside
\* the field's range is a validation error.
VectorSearchRequest(top_k, similarity_threshold) ==
  LET k == IF top_k.type = "absent"
           THEN [type |-> "int", value |-> DefaultTopK] ELSE top_k
      t == IF similarity_threshold.type = "absent"
           THEN [type |-> "float", value |-> DefaultThreshold]
           ELSE similarity_threshold
  IN  IF /\ k.type = "int"
         /\ k.value >= 1
         /\ k.value <= RequestMaxTopK
         /\ t.type \in {"int", "float"}
         /\ ~FracLess(Number(t), Frac(0, 1))
         /\ ~FracLess(Frac(1, 1), Number(t))
      THEN [top_k |-> k.value, similarity_threshold |-> Number(t)]
      ELSE Raised("ValidationError")

SuggestT == [msg |-> "he sequence contains T. Please use U for the RNA sequence"]
SuggestUpper == [msg |-> "Recommend writing sequences in uppercase"]
SuggestSpace == [msg |-> "The sequence contains a space. Please remove it"]
Example(corrected) == [msg |-> "Example: ", corrected |-> corrected]

\* str.replace of one character by another.
Replace(s, old, new) ==
  AsSeq([i \in 1..Len(s) |-> IF s[i] = old THEN new ELSE s[i]], Len(s))

\* The characters \s of a regular expression does not match.
NotSpace(c) == ~IsSpace(c)

\* TFinding, were T looked for in the string as given.
TFinding_CaseSensitive(sequence) ==
  IF Search({"T"}, sequence)
  THEN <<SuggestT, Example(Replace(Upper(sequence), "T", "U"))>>
  ELSE <<>>

\* suggest_corrections, the finding of T.
TFinding(sequence) ==
  IF Search({"T"}, Upper(sequence))
  THEN <<SuggestT, Example(Replace(Upper(sequence), "T", "U"))>>
  ELSE <<>>

\* suggest_corrections, the finding of lowercase characters.
UpperFinding(sequence) ==
  IF sequence # Upper(sequence) THEN <<SuggestUpper>> ELSE <<>>

\* suggest_corrections, the finding of whitespace.
SpaceFinding(sequence) ==
  IF \E i \in 1..Len(sequence) : IsSpace(sequence[i])
  THEN <<SuggestSpace, Example(SelectSeq(sequence, NotSpace))>>
  ELSE <<>>

\* RNAValidator.suggest_corrections.  sequence is a Python value; a value
\* that is true and no string has no upper().
suggest_corrections(self, sequence) ==
  IF ~Truthy(sequence) THEN [returns |-> <<>>]
  ELSE IF sequence.type # "str" THEN Raised("AttributeError")
  ELSE [returns |-> TFinding(sequence.value)
                    \o UpperFinding(sequence.value)
                    \o SpaceFinding(sequence.value)]

(***************************************************************************)
(* Exceptions.                                                             *)
(***************************************************************************)
\* No value: result before a call returns, and after one that raised.
NoResult == [op |-> "none"]

\* The fractions of a feature vector.
VectorFractions(v) == {v[k] : k \in DOMAIN v}

\* The fractions of the dict of get_sequence_statistics (of none, if empty).
StatisticsFractions(d) ==
  IF "length" \in DOMAIN d
  THEN {d.gc_content, d.au_content}
       \cup {d.base_frequencies[b] : b \in DOMAIN d.base_frequencies}
  ELSE {}

\* The exception of a call whose value holds the fractions fs:
\* ZeroDivisionError if one of the divisions was by zero, or none.
DivisionError(fs) ==
  IF \E x \in fs : x.den = 0 THEN "ZeroDivisionError" ELSE "none"

(***************************************************************************)
(* The module-level instances and the worker threads.                      *)
(***************************************************************************)
\* Python's None.
None == [type |-> "NoneType"]

\* The worker threads that run the handlers declared with def.
MaxThreads == 2
Threads == 1..MaxThreads

\* The constructions of a classifier that fail (the model cannot be saved).
MaxFailures == 1

\* A thread that runs no call.
Idle == [pc |-> "idle", call |-> [op |-> "none"], result |-> NoResult, raised |-> "none"]

\* RNAMLClassifier.__init__: the n-th classifier made, its model loaded or
\* trained.
RNAMLClassifier(n) == [type |-> "RNAMLClassifier", id |-> n, model |-> TrainedModel]

\* The identifiers the index holds when the program starts.
Ids == {"s1", "s2", "s3"}

\* RNAVectorDB.__init__, and the class MockVectorDB: the n-th store made.
RNAVectorDB(n) == [type |-> "RNAVectorDB", id |-> n]
MockVectorDB(n) == [type |-> "MockVectorDB", id |-> n]

\* The methods of an instance, by its class.
Methods(instance) ==
  CASE instance.type = "RNAVectorDB" ->
         {"_encode_sequence", "search_similar", "get_collection_stats",
          "delete_sequence", "update_sequence_metadata"}
    [] instance.type = "MockVectorDB" ->
         {"get_collection_stats", "search_similar", "add_sequence"}

(***************************************************************************)
(* The calls and their arguments.                                          *)
(***************************************************************************)
\* The literal s repeated n times, as a part of a string expression.
Lit(s, n) == [s |-> s, n |-> n]

RECURSIVE Strings(_)
\* The strings over Chars of length n.
Strings(n) ==
  IF n = 0 THEN {<<>>}
  ELSE {<<c>> \o s : c \in Chars, s \in Strings(n - 1)}

\* Every string of at most MaxLen characters.
ShortInputs == {<<Lit(s, 1)>> : s \in UNION {Strings(n) : n \in 0..MaxLen}}

\* Two runs, each of a length at or next to the repeat threshold, or of 1.
RunLengths == {1, RepeatThreshold - 1, RepeatThreshold, RepeatThreshold + 1}
RunInputs ==
  {<<Lit(<<c1>>, n1), Lit(<<c2>>, n2)>> :
     c1 \in {"A", "a", "X", " "}, c2 \in {"A", "G", "X"},
     n1 \in RunLengths, n2 \in RunLengths}

\* Strings of a length at or next to max_length: a run, then "UG" repeated
\* to 50 characters short of max_length, then a tail.
LongInputs ==
  {<<Lit(<<c>>, n), Lit(<<"U", "G">>, (RNAValidator.max_length - RepeatThreshold) \div 2),
     Lit(t, 1)>> :
     c \in {"A", "X"},
     n \in {RepeatThreshold - 1, RepeatThreshold, RepeatThreshold + 1},
     t \in {<<>>, <<"C">>, <<" ">>}}

\* The arguments of validate_rna_sequence: None, a number, or a string.
ValidateArgs ==
  {[type |-> "NoneType"], [type |-> "int", value |-> 7]}
  \cup {[type |-> "str", expr |-> e] : e \in ShortInputs \cup RunInputs \cup LongInputs}

\* The arguments of _extract_features: strings.
ExtractArgs == {[type |-> "str", expr |-> e] : e \in ShortInputs}

\* The arguments of get_sequence_statistics: None, a number, or a string.
StatisticsArgs ==
  {[type |-> "NoneType"], [type |-> "int", value |-> 7], [type |-> "int", value |-> 0]}
  \cup {[type |-> "str", expr |-> e] : e \in ShortInputs \cup RunInputs}

\* The model of the classifier asked for its feature importance.
Models == {[type |-> "NoneType"], TrainedModel}

\* The Python value of an argument.
Value(arg) ==
  IF arg.type = "str" THEN [type |-> "str", value |-> Text(arg.expr)] ELSE arg

\* The characters of the names, and the length of the short ones.
NameChars == {"a", " ", "\\"} \cup NameSpecialChars
MaxNameLen == 2

RECURSIVE NameStrings(_)
\* The strings over NameChars of length n.
NameStrings(n) ==
  IF n = 0 THEN {<<>>}
  ELSE {<<c>> \o s : c \in NameChars, s \in NameStrings(n - 1)}

\* Names of a length at or next to the longest.
LongNames ==
  {<<Lit(<<c>>, n)>> : c \in {"a", " "}, n \in {NameMaxLength, NameMaxLength + 1}}
  \cup {<<Lit(<<"a">>, n), Lit(<<c>>, 1)>> :
          n \in {NameMaxLength - 1, NameMaxLength}, c \in {"\\", "*", "?"}}

\* The arguments of validate_sequence_name: None, a number, or a string.
NameArgs ==
  {[type |-> "NoneType"], [type |-> "int", value |-> 7]}
  \cup {[type |-> "str", expr |-> <<Lit(s, 1)>>] :
          s \in UNION {NameStrings(n) : n \in 0..MaxNameLen}}
  \cup {[type |-> "str", expr |-> e] : e \in LongNames}

\* The keys and the values of the metadata, and the number of items.
MetadataKeys ==
  {[type |-> "int", value |-> 7], [type |-> "int", value |-> 1234]}
  \cup {[type |-> "str", expr |-> <<Lit(<<"k">>, n)>>] :
          n \in {0, 1, KeyMaxLength, KeyMaxLength + 1}}
MetadataValues ==
  {[type |-> "NoneType"], [type |-> "int", value |-> 7]}
  \cup {[type |-> "str", expr |-> <<Lit(<<"v">>, n)>>] :
          n \in {0, ValueMaxLength, ValueMaxLength + 1}}
MaxItems == 2

\* The dicts of n items, in the order of insertion: no key twice.
RECURSIVE Dicts(_)
Dicts(n) ==
  IF n = 0 THEN {<<>>}
  ELSE {Append(d, [key |-> k, value |-> v]) :
          d \in Dicts(n - 1),
          k \in MetadataKeys,
          v \in MetadataValues} \ 
       {d \in {Append(d, [key |-> k, value |-> v]) :
                 d \in Dicts(n - 1), k \in MetadataKeys, v \in MetadataValues} :
          \E i \in 1..(n - 1) : d[i].key = d[n].key}

\* The arguments of validate_metadata: None, a number, or a dict.
MetadataArgs ==
  {[type |-> "NoneType"], [type |-> "int", value |-> 7]}
  \cup {[type |-> "dict", items |-> d] : d \in UNION {Dicts(n) : n \in 0..MaxItems}}

\* The Python value of a metadata argument.
MetadataValue(arg) ==
  IF arg.type = "dict"
  THEN [type |-> "dict",
        items |-> [i \in 1..Len(arg.items) |->
                     [key |-> Value(arg.items[i].key),
                      value |-> Value(arg.items[i].value)]]]
  ELSE arg

\* The search parameters: top_k and similarity_threshold, of every type.
TopKs ==
  {[type |-> "int", value |-> n] :
     n \in {0 - 1, 0, 1, DefaultTopK, RequestMaxTopK, RequestMaxTopK + 1,
            ParamsMaxTopK, ParamsMaxTopK + 1}}
  \cup {[type |-> "bool", value |-> TRUE],
        [type |-> "float", value |-> Frac(DefaultTopK, 1)],
        [type |-> "NoneType"]}
Thresholds ==
  {[type |-> "float", value |-> Frac(n, 10)] : n \in {0 - 1, 0, 5, 10, 11}}
  \cup {[type |-> "int", value |-> n] : n \in {0, 1, 2}}
  \cup {[type |-> "NoneType"]}

\* The fields of a search request: a number, or absent.
RequestTopKs ==
  {[type |-> "absent"]} \cup {k \in TopKs : k.type = "int"}
RequestThresholds ==
  {[type |-> "absent"]} \cup {x \in Thresholds : x.type \in {"int", "float"}}

\* The characters of the strings of suggest_corrections.
CorrectionChars == {"A", "T", "t", "a", " "}

RECURSIVE CorrectionStrings(_)
\* The strings over CorrectionChars of length n.
CorrectionStrings(n) ==
  IF n = 0 THEN {<<>>}
  ELSE {<<c>> \o s : c \in CorrectionChars, s \in CorrectionStrings(n - 1)}

\* The arguments of suggest_corrections: None, a number, or a string.
CorrectionArgs ==
  {[type |-> "NoneType"], [type |-> "int", value |-> 7], [type |-> "int", value |-> 0]}
  \cup {[type |-> "str", expr |-> <<Lit(s, 1)>>] :
          s \in UNION {CorrectionStrings(n) : n \in 0..MaxLen}}

Init ==
  /\ validator = RNAValidator
  /\ pc = "idle"
  /\ call = [op |-> "none"]
  /\ result = NoResult
  /\ raised = "none"
  /\ log = <<>>
  /\ threads = [t \in Threads |-> Idle]
  /\ _ml_classifier_instance = None
  /\ constructed = 0
  /\ failed = 0
  /\ _vectordb_instance = None
  /\ collection = Ids
  /\ attempts = 0

\* CallValidate, were the bases found invalid added to valid_bases.
CallValidate_Learns(arg) ==
  /\ pc = "idle"
  /\ pc' = "returned"
  /\ call' = [op |-> "validate_rna_sequence", arg |-> arg]
  /\ result' = validate_rna_sequence(validator, Value(arg))
  /\ raised' = "none"
  /\ validator' =
       IF arg.type = "str"
       THEN [validator EXCEPT
               !.valid_bases = @ \cup InvalidBases(validator, Normalize(Text(arg.expr)))]
       ELSE validator
  /\ UNCHANGED <<log, workers, vectordb>>

\* A caller invokes validator.validate_rna_sequence(arg).
CallValidate(arg) ==
  /\ pc = "idle"
  /\ pc' = "returned"
  /\ call' = [op |-> "validate_rna_sequence", arg |-> arg]
  /\ result' = validate_rna_sequence(validator, Value(arg))
  /\ raised' = "none"
  /\ UNCHANGED <<validator, log, workers, vectordb>>

\* A caller invokes classifier._extract_features(arg).
CallExtract(arg) ==
  /\ pc = "idle"
  /\ pc' = "returned"
  /\ call' = [op |-> "_extract_features", arg |-> arg]
  /\ LET v == _extract_features(Value(arg).value)
         error == DivisionError(VectorFractions(v))
     IN  /\ raised' = error
         /\ result' = IF error = "none" THEN v ELSE NoResult
  /\ UNCHANGED <<validator, log, workers, vectordb>>

\* A caller invokes validator.get_sequence_statistics(arg).
CallStatistics(arg) ==
  /\ pc = "idle"
  /\ pc' = "returned"
  /\ call' = [op |-> "get_sequence_statistics", arg |-> arg]
  /\ LET d == get_sequence_statistics(validator, Value(arg))
         error == IF "exception" \in DOMAIN d THEN d.exception
                  ELSE DivisionError(StatisticsFractions(d))
     IN  /\ raised' = error
         /\ result' = IF error = "none" THEN d ELSE NoResult
  /\ UNCHANGED <<validator, log, workers, vectordb>>

\* A caller invokes classifier.get_feature_importance().
CallFeatureImportance(model) ==
  /\ pc = "idle"
  /\ pc' = "returned"
  /\ call' = [op |-> "get_feature_importance", model |-> model]
  /\ result' = get_feature_importance(model)
  /\ raised' = "none"
  /\ UNCHANGED <<validator, log, workers, vectordb>>

\* A caller invokes validator.validate_sequence_name(arg).
CallName(arg) ==
  /\ pc = "idle"
  /\ pc' = "returned"
  /\ call' = [op |-> "validate_sequence_name", arg |-> arg]
  /\ result' = validate_sequence_name(validator, Value(arg))
  /\ raised' = "none"
  /\ UNCHANGED <<validator, log, workers, vectordb>>

\* A caller invokes validator.validate_metadata(arg).
CallMetadata(arg) ==
  /\ pc = "idle"
  /\ pc' = "returned"
  /\ call' = [op |-> "validate_metadata", arg |-> arg]
  /\ result' = validate_metadata(validator, MetadataValue(arg))
  /\ raised' = "none"
  /\ UNCHANGED <<validator, log, workers, vectordb>>

\* A caller invokes validator.validate_search_params(top_k, threshold).
CallSearchParams(top_k, similarity_threshold) ==
  /\ pc = "idle"
  /\ pc' = "returned"
  /\ call' = [op |-> "validate_search_params",
              top_k |-> top_k, similarity_threshold |-> similarity_threshold]
  /\ result' = validate_search_params(validator, top_k, similarity_threshold)
  /\ raised' = "none"
  /\ UNCHANGED <<validator, log, workers, vectordb>>

\* A search request is parsed into a VectorSearchRequest.
CallSearchRequest(top_k, similarity_threshold) ==
  /\ pc = "idle"
  /\ pc' = "returned"
  /\ call' = [op |-> "VectorSearchRequest",
              top_k |-> top_k, similarity_threshold |-> similarity_threshold]
  /\ LET r == VectorSearchRequest(top_k, similarity_threshold)
     IN  IF "exception" \in DOMAIN r
         THEN raised' = r.exception /\ result' = NoResult
         ELSE raised' = "none" /\ result' = r
  /\ UNCHANGED <<validator, log, workers, vectordb>>

\* A caller invokes validator.suggest_corrections(arg).
CallSuggest(arg) ==
  /\ pc = "idle"
  /\ pc' = "returned"
  /\ call' = [op |-> "suggest_corrections", arg |-> arg]
  /\ LET r == suggest_corrections(validator, Value(arg))
     IN  IF "exception" \in DOMAIN r
         THEN raised' = r.exception /\ result' = NoResult
         ELSE raised' = "none" /\ result' = r.returns
  /\ UNCHANGED <<validator, log, workers, vectordb>>

\* The caller takes the result.
Return ==
  /\ pc = "returned"
  /\ pc' = "idle"
  /\ call' = [op |-> "none"]
  /\ result' = NoResult
  /\ raised' = "none"
  /\ UNCHANGED <<validator, log, workers, vectordb>>

Next ==
  \/ \E arg \in ValidateArgs : CallValidate(arg)
  \/ \E arg \in ExtractArgs : CallExtract(arg)
  \/ \E arg \in StatisticsArgs : CallStatistics(arg)
  \/ \E model \in Models : CallFeatureImportance(model)
  \/ \E arg \in NameArgs : CallName(arg)
  \/ \E arg \in MetadataArgs : CallMetadata(arg)
  \/ \E top_k \in TopKs, x \in Thresholds : CallSearchParams(top_k, x)
  \/ \E top_k \in RequestTopKs, x \in RequestThresholds : CallSearchRequest(top_k, x)
  \/ \E arg \in CorrectionArgs : CallSuggest(arg)
  \/ Return

Spec == Init /\ [][Next]_vars

(***************************************************************************)
(* The same calls, each kept in a log once it has returned.                *)
(***************************************************************************)
\* The strings of the logged calls.
LoggedStrings == {<<>>, <<"A", "a">>, <<"X">>, <<" ", "G">>}

\* The arguments of the logged calls.
LoggedValidateArgs ==
  {[type |-> "NoneType"]}
  \cup {[type |-> "str", expr |-> <<Lit(s, 1)>>] : s \in LoggedStrings}
LoggedExtractArgs == {[type |-> "str", expr |-> <<Lit(s, 1)>>] : s \in LoggedStrings}

\* The caller takes the result; the call and its result are added to the log.
ReturnLogged ==
  /\ pc = "returned"
  /\ Len(log) < MaxLog
  /\ pc' = "idle"
  /\ log' = Append(log, [call |-> call, result |-> result, raised |-> raised])
  /\ call' = [op |-> "none"]
  /\ result' = NoResult
  /\ raised' = "none"
  /\ UNCHANGED <<validator, workers, vectordb>>

NextLogged ==
  \/ \E arg \in LoggedValidateArgs : CallValidate(arg)
  \/ \E arg \in LoggedExtractArgs : CallExtract(arg)
  \/ ReturnLogged

SpecLogged == Init /\ [][NextLogged]_vars

(***************************************************************************)
(* The handlers on worker threads: the calls of the shared validator, and  *)
(* get_ml_classifier_instance.                                             *)
(***************************************************************************)
\* The operations of the validator.
ValidatorOps ==
  {"validate_rna_sequence", "get_sequence_statistics", "suggest_corrections",
   "validate_sequence_name", "validate_metadata", "validate_search_params"}

\* The strings of the threads' calls.
ThreadStrings == {<<"A">>, <<"X">>, <<" ">>, <<"t", " ", "a">>}

\* The values the threads pass: None, a number, and the strings.
ThreadValues ==
  {None, [type |-> "int", value |-> 7]}
  \cup {[type |-> "str", expr |-> <<Lit(s, 1)>>] : s \in ThreadStrings}

\* The calls of the validator the threads make.
ThreadCalls ==
  {[op |-> op, arg |-> arg] :
     op \in {"validate_rna_sequence", "validate_sequence_name"},
     arg \in ThreadValues}
  \cup {[op |-> op, arg |-> arg] :
          op \in {"get_sequence_statistics", "suggest_corrections"},
          arg \in ThreadValues \ {[type |-> "int", value |-> 7]}}
  \cup {[op |-> "validate_metadata", arg |-> arg] :
          arg \in {None, [type |-> "int", value |-> 7],
                   [type |-> "dict",
                    items |-> <<[key |-> [type |-> "int", value |-> 7],
                                 value |-> None]>>]}}
  \cup {[op |-> "validate_search_params", top_k |-> k, similarity_threshold |-> x] :
          k \in {None, [type |-> "int", value |-> DefaultTopK]},
          x \in {None, [type |-> "float", value |-> DefaultThreshold]}}

\* The method of the validator self that the call c names, applied.
Apply(self, c) ==
  CASE c.op = "validate_rna_sequence" -> validate_rna_sequence(self, Value(c.arg))
    [] c.op = "get_sequence_statistics" -> get_sequence_statistics(self, Value(c.arg))
    [] c.op = "suggest_corrections" -> suggest_corrections(self, Value(c.arg))
    [] c.op = "validate_sequence_name" -> validate_sequence_name(self, Value(c.arg))
    [] c.op = "validate_metadata" -> validate_metadata(self, MetadataValue(c.arg))
    [] c.op = "validate_search_params" ->
         validate_search_params(self, c.top_k, c.similarity_threshold)

\* Thread t begins the call c of the shared validator.
ThreadCall(t, c) ==
  /\ threads[t].pc = "idle"
  /\ threads' = [threads EXCEPT ![t] = [Idle EXCEPT !.pc = "running", !.call = c]]
  /\ UNCHANGED <<validator, pc, call, result, raised, log, vectordb>>
  /\ UNCHANGED <<_ml_classifier_instance, constructed, failed>>

\* ThreadReturn, were the bases found invalid added to valid_bases.
ThreadReturn_Learns(t) ==
  /\ threads[t].pc = "running"
  /\ threads[t].call.op \in ValidatorOps
  /\ LET r == Apply(validator, threads[t].call)
     IN  threads' = [threads EXCEPT ![t] = [@ EXCEPT !.pc = "returned", !.result = r]]
  /\ validator' =
       IF threads[t].call.op = "validate_rna_sequence" /\ threads[t].call.arg.type = "str"
       THEN [validator EXCEPT
               !.valid_bases =
                 @ \cup InvalidBases(validator, Normalize(Text(threads[t].call.arg.expr)))]
       ELSE validator
  /\ UNCHANGED <<pc, call, result, raised, log, vectordb>>
  /\ UNCHANGED <<_ml_classifier_instance, constructed, failed>>

\* Thread t ends its call of the validator: the method reads the fields of
\* the validator and writes none.
ThreadReturn(t) ==
  /\ threads[t].pc = "running"
  /\ threads[t].call.op \in ValidatorOps
  /\ LET r == Apply(validator, threads[t].call)
     IN  threads' = [threads EXCEPT ![t] = [@ EXCEPT !.pc = "returned", !.result = r]]
  /\ UNCHANGED <<validator, pc, call, result, raised, log, vectordb>>
  /\ UNCHANGED <<_ml_classifier_instance, constructed, failed>>

\* get_ml_classifier_instance on thread t, the test of the global.
GetInstance(t) ==
  /\ threads[t].pc = "idle"
  /\ threads' = [threads EXCEPT ![t] =
                   [Idle EXCEPT !.call = [op |-> "get_ml_classifier_instance"],
                                !.pc = IF _ml_classifier_instance = None
                                       THEN "construct" ELSE "return"]]
  /\ UNCHANGED <<validator, pc, call, result, raised, log, vectordb>>
  /\ UNCHANGED <<_ml_classifier_instance, constructed, failed>>

\* get_ml_classifier_instance on thread t: RNAMLClassifier() returns.
Construct(t) ==
  /\ threads[t].pc = "construct"
  /\ constructed' = constructed + 1
  /\ threads' = [threads EXCEPT ![t] =
                   [@ EXCEPT !.pc = "store", !.result = RNAMLClassifier(constructed + 1)]]
  /\ UNCHANGED <<validator, pc, call, result, raised, log, vectordb>>
  /\ UNCHANGED <<_ml_classifier_instance, failed>>

\* get_ml_classifier_instance on thread t: RNAMLClassifier() raises, and the
\* exception is raised again.
ConstructFails(t) ==
  /\ threads[t].pc = "construct"
  /\ failed < MaxFailures
  /\ failed' = failed + 1
  /\ threads' = [threads EXCEPT ![t] =
                   [@ EXCEPT !.pc = "returned", !.raised = "Exception"]]
  /\ UNCHANGED <<validator, pc, call, result, raised, log, vectordb>>
  /\ UNCHANGED <<_ml_classifier_instance, constructed>>

\* get_ml_classifier_instance on thread t: the new classifier is assigned to
\* the global.
Store(t) ==
  /\ threads[t].pc = "store"
  /\ _ml_classifier_instance' = threads[t].result
  /\ threads' = [threads EXCEPT ![t] = [@ EXCEPT !.pc = "return", !.result = NoResult]]
  /\ UNCHANGED <<validator, pc, call, result, raised, log, vectordb>>
  /\ UNCHANGED <<constructed, failed>>

\* get_ml_classifier_instance on thread t: return _ml_classifier_instance.
ReturnInstance(t) ==
  /\ threads[t].pc = "return"
  /\ threads' = [threads EXCEPT ![t] =
                   [@ EXCEPT !.pc = "returned", !.result = _ml_classifier_instance]]
  /\ UNCHANGED <<validator, pc, call, result, raised, log, vectordb>>
  /\ UNCHANGED <<_ml_classifier_instance, constructed, failed>>

\* The handler on thread t has answered its request.
ThreadDone(t) ==
  /\ threads[t].pc = "returned"
  /\ threads' = [threads EXCEPT ![t] = Idle]
  /\ UNCHANGED <<validator, pc, call, result, raised, log, vectordb>>
  /\ UNCHANGED <<_ml_classifier_instance, constructed, failed>>

NextThreads ==
  \/ \E t \in Threads, c \in ThreadCalls : ThreadCall(t, c)
  \/ \E t \in Threads : ThreadReturn(t)
  \/ \E t \in Threads : GetInstance(t)
  \/ \E t \in Threads : Construct(t)
  \/ \E t \in Threads : ConstructFails(t)
  \/ \E t \in Threads : Store(t)
  \/ \E t \in Threads : ReturnInstance(t)
  \/ \E t \in Threads : ThreadDone(t)

SpecThreads == Init /\ [][NextThreads]_vars

(***************************************************************************)
(* The vector store: get_vectordb_instance, RNAVectorDB.search_similar and *)
(* the handler of PUT /vectordb/sequence/{sequence_id}.                    *)
(***************************************************************************)
\* get_vectordb_instance: the instance it leaves in the global and returns,
\* and the constructions attempted so far.  ok: RNAVectorDB() does not raise.
get_vectordb_instance(ok) ==
  IF _vectordb_instance # None
  THEN [instance |-> _vectordb_instance, attempts |-> attempts]
  ELSE IF ok
  THEN [instance |-> RNAVectorDB(attempts + 1), attempts |-> attempts + 1]
  ELSE [instance |-> MockVectorDB(attempts + 1), attempts |-> attempts + 1]

\* dict.get(key, default).
Get(d, key, default) == IF key \in DOMAIN d THEN d[key] ELSE default

\* Passes, were a score at the threshold left out.
Passes_Strictly(score, similarity_threshold) == FracLess(similarity_threshold, score)

\* search_similar, the filter: score >= similarity_threshold.
Passes(score, similarity_threshold) == ~FracLess(score, similarity_threshold)

\* SimilarSequence(...): the fields similarity and similarity_score are in
\* [0.0, 1.0], or the construction raises.
SimilarSequence(sequence, sequence_id, similarity, metadata) ==
  IF FracLess(similarity, Frac(0, 1)) \/ FracLess(Frac(1, 1), similarity)
  THEN Raised("ValidationError")
  ELSE [sequence |-> sequence, sequence_id |-> sequence_id,
        similarity |-> similarity, similarity_score |-> similarity,
        metadata |-> metadata]

RECURSIVE SimilarSequences(_, _)
\* search_similar, the loop over results["matches"].
SimilarSequences(matches, similarity_threshold) ==
  IF matches = <<>> THEN <<>>
  ELSE LET match == matches[1]
           seq_id == Get(match, "id", None)
           metadata == Get(match, "metadata", EmptyDict)
           score == Get(match, "score", Frac(0, 1))
       IN  (IF Passes(score, similarity_threshold)
            THEN <<SimilarSequence(Get(metadata, "sequence", <<>>), seq_id,
                                   score, metadata)>>
            ELSE <<>>)
           \o SimilarSequences(Tail(matches), similarity_threshold)

\* RNAVectorDB.search_similar.  results is what the query of the index
\* returned for the embedding of query_sequence.
search_similar(query_sequence, top_k, similarity_threshold, results) ==
  LET similar_sequences ==
        IF results # EmptyDict /\ "matches" \in DOMAIN results
        THEN SimilarSequences(results.matches, similarity_threshold)
        ELSE <<>>
  IN  IF \E k \in 1..Len(similar_sequences) : "exception" \in DOMAIN similar_sequences[k]
      THEN Raised("ValidationError")
      ELSE [returns |-> [query_sequence |-> Upper(query_sequence),
                         results |-> similar_sequences,
                         total_found |-> Len(similar_sequences)]]

\* MockVectorDB.search_similar.
MockSearchSimilar == [returns |-> [query_sequence |-> <<>>, results |-> <<>>, total_found |-> 0]]

\* The scores of the index, and the metadata it holds with an identifier.
Scores == {Frac(0 - 1, 2), Frac(1, 2), Frac(99, 100), Frac(1, 1)}
MetadataOf(id) ==
  CASE id = "s1" -> [sequence |-> <<"A", "U">>, name |-> "one"]
    [] id = "s2" -> [name |-> "two"]
    [] OTHER -> EmptyDict

\* The answers of the index to a query for top_k matches: the top_k
\* nearest identifiers it holds (all, if fewer), by falling score.
Query(top_k) ==
  LET n == IF top_k < Cardinality(collection) THEN top_k ELSE Cardinality(collection)
  IN  {[matches |-> [k \in 1..n |->
                       [id |-> ids[k], score |-> scores[k], metadata |-> MetadataOf(ids[k])]]] :
         ids \in {f \in [1..n -> collection] :
                    \A i \in 1..n, j \in 1..n : i # j => f[i] # f[j]},
         scores \in {f \in [1..n -> Scores] :
                       \A i \in 1..n, j \in 1..n : i < j => ~FracLess(f[i], f[j])}}

\* The arguments of search_similar: those the handlers pass.
Queries == {<<"a", "U">>}
SearchTopKs == {1, 2, DefaultTopK}
SearchThresholds == {Frac(0, 1), Frac(1, 2), Frac(99, 100), Frac(1, 1)}

\* A caller invokes get_vectordb_instance().
CallGetVectorDB(ok) ==
  /\ pc = "idle"
  /\ _vectordb_instance = None \/ ok
  /\ pc' = "returned"
  /\ call' = [op |-> "get_vectordb_instance", ok |-> ok, stored |-> _vectordb_instance]
  /\ LET got == get_vectordb_instance(ok)
     IN  /\ _vectordb_instance' = got.instance
         /\ attempts' = got.attempts
         /\ result' = got.instance
  /\ raised' = "none"
  /\ UNCHANGED <<validator, log, workers, collection>>

\* A caller invokes search_similar of the instance it was given; the index
\* answers the query with results, or with nothing.
CallSearchSimilar(query_sequence, top_k, similarity_threshold) ==
  /\ pc = "idle"
  /\ _vectordb_instance # None
  /\ pc' = "returned"
  /\ \E results \in Query(top_k) \cup {EmptyDict} :
       /\ call' = [op |-> "search_similar", query_sequence |-> query_sequence,
                   top_k |-> top_k, similarity_threshold |-> similarity_threshold,
                   results |-> results, self |-> _vectordb_instance]
       /\ LET r == IF _vectordb_instance.type = "MockVectorDB" THEN MockSearchSimilar
                   ELSE search_similar(query_sequence, top_k, similarity_threshold, results)
          IN  IF "exception" \in DOMAIN r
              THEN raised' = r.exception /\ result' = NoResult
              ELSE raised' = "none" /\ result' = r.returns
  /\ UNCHANGED <<validator, log, workers, vectordb>>

\* The HTTP status codes of the handlers' answers.
HTTP_200_OK == 200
HTTP_400_BAD_REQUEST == 400
HTTP_404_NOT_FOUND == 404
HTTP_422_UNPROCESSABLE_ENTITY == 422
HTTP_500_INTERNAL_SERVER_ERROR == 500

\* RNASequence(sequence=v): the field's length limits, then its validator.
RNASequenceMaxLength == 10000
RNASequence(v) ==
  IF Len(v) < 1 \/ Len(v) > RNASequenceMaxLength THEN Raised("ValidationError")
  ELSE LET r == RNASequence_validate_rna_sequence(v)
       IN  IF "exception" \in DOMAIN r THEN Raised("ValidationError") ELSE r

\* The sequences and the identifiers of the requests.
UpdateSequences ==
  {<<Lit(<<"a">>, 1)>>, <<Lit(<<"X">>, 1)>>, <<Lit(<<" ">>, 1)>>,
   <<Lit(<<"A">>, RepeatThreshold + 1)>>}
UpdateIds == Ids \cup {"s9"}

\* The handler update_sequence of PUT /vectordb/sequence/{sequence_id}.
\* body is the sequence of the request; ok: RNAVectorDB() does not raise,
\* should it be made; delete_raises: the index's delete raises.
UpdateSequence(sequence_id, body, ok, delete_raises) ==
  /\ pc = "idle"
  /\ pc' = "returned"
  /\ call' = [op |-> "update_sequence", sequence_id |-> sequence_id,
              arg |-> [type |-> "str", expr |-> body], stored |-> collection]
  /\ raised' = "none"
  /\ LET rna_data == RNASequence(Text(body))
         got == get_vectordb_instance(ok)
     IN  IF "exception" \in DOMAIN rna_data
         THEN /\ result' = [status |-> HTTP_422_UNPROCESSABLE_ENTITY]
              /\ UNCHANGED vectordb
         ELSE IF ~validate_rna_sequence(validator,
                     [type |-> "str", value |-> rna_data.returns]).is_valid
         THEN /\ result' = [status |-> HTTP_400_BAD_REQUEST]
              /\ UNCHANGED vectordb
         ELSE /\ _vectordb_instance' = got.instance
              /\ attempts' = got.attempts
              /\ IF "delete_sequence" \notin Methods(got.instance)
                 THEN /\ result' = [status |-> HTTP_500_INTERNAL_SERVER_ERROR]
                      /\ UNCHANGED collection
                 ELSE IF delete_raises
                 THEN /\ result' = [status |-> HTTP_404_NOT_FOUND]
                      /\ UNCHANGED collection
                 ELSE /\ collection' = collection \ {sequence_id}
                      /\ result' =
                           IF "add_sequence" \notin Methods(got.instance)
                           THEN [status |-> HTTP_500_INTERNAL_SERVER_ERROR]
                           ELSE [status |-> HTTP_200_OK, new_id |-> "mock_id"]
  /\ UNCHANGED <<validator, log, workers>>

\* The caller takes the result.
ReturnVectorDB ==
  /\ pc = "returned"
  /\ pc' = "idle"
  /\ call' = [op |-> "none"]
  /\ result' = NoResult
  /\ raised' = "none"
  /\ UNCHANGED <<validator, log, workers, vectordb>>

NextVectorDB ==
  \/ \E ok \in BOOLEAN : CallGetVectorDB(ok)
  \/ \E q \in Queries, top_k \in SearchTopKs, x \in SearchThresholds :
       CallSearchSimilar(q, top_k, x)
  \/ \E id \in UpdateIds, body \in UpdateSequences, ok \in BOOLEAN, delete_raises \in BOOLEAN :
       UpdateSequence(id, body, ok, delete_raises)
  \/ ReturnVectorDB

SpecVectorDB == Init /\ [][NextVectorDB]_vars

(***************************************************************************)
(* The claims.                                                             *)
(***************************************************************************)
\* A call of validate_rna_sequence has returned.
Validated == pc = "returned" /\ call.op = "validate_rna_sequence"

\* A call of _extract_features has returned.
Extracted == pc = "returned" /\ call.op = "_extract_features"

\* The string passed to the call (of a string argument).
Raw == Text(call.arg.expr)

\* s holds nothing but whitespace: it is empty after trimming.
Blank(s) == \A i \in 1..Len(s) : IsSpace(s[i])

\* The call was of a string that is not empty after trimming: the checks of
\* the normalized string are made.
Checked == Validated /\ call.arg.type = "str" /\ ~Blank(Raw)

\* The messages of the content errors, in the order of the checks.
ContentRank(msg) ==
  CASE msg = "The sequence length is too short" -> 1
    [] msg = "The sequence length is too long" -> 1
    [] msg = "Invalid bases are included" -> 2
    [] msg = "An abnormal repetitive sequence was detected" -> 3
    [] msg = "The GC content is out of range" -> 4
    [] OTHER -> 0

\* The errors of the result with a message.
ErrorsWith(msg) == {i \in 1..Len(result.errors) : result.errors[i].msg = msg}

\* s has k equal characters in a row somewhere.
HasRun(s, k) ==
  \E i \in 1..(Len(s) - k + 1) : \A j \in i..(i + k - 1) : s[j] = s[i]

\* The characters of s that are no RNA base.
Offending(s) == {s[i] : i \in 1..Len(s)} \ {"A", "U", "G", "C"}

\* C1: whatever the argument, the result is valid exactly when its error
\* list is empty.
C1_ValidIffNoErrors ==
  Validated => (result.is_valid <=> result.errors = <<>>)

C1_Witness ==
  /\ Validated /\ call.arg.type = "str"
  /\ result.is_valid /\ result.errors = <<>>

\* C2: an argument that is None, no string, or empty after trimming gives an
\* invalid result with exactly one error, which is none of the length,
\* alphabet, repeat and GC-range errors.
C2_InputShapeSingleError ==
  (Validated /\ (call.arg.type # "str" \/ Blank(Raw)))
    => /\ ~result.is_valid
       /\ Len(result.errors) = 1
       /\ ContentRank(result.errors[1].msg) = 0
       /\ result.errors[1] =
            (IF call.arg.type = "NoneType" THEN ErrNone
             ELSE IF call.arg.type # "str" THEN ErrNotString
             ELSE ErrEmpty)

C2_Witness ==
  /\ Validated /\ call.arg.type = "str" /\ Len(Raw) > 0 /\ Blank(Raw)
  /\ result.errors = <<ErrEmpty>>

\* C3: a string over {A,U,G,C} of 1 to 50000 characters with no run of more
\* than 50 equal characters is valid, with no error.
C3_ConformantIsValid ==
  (/\ Validated /\ call.arg.type = "str"
   /\ Offending(Raw) = {}
   /\ Len(Raw) >= 1 /\ Len(Raw) <= 50000
   /\ ~HasRun(Raw, 51))
    => (result.is_valid /\ result.errors = <<>>)

C3_Witness ==
  /\ Validated /\ call.arg.type = "str"
  /\ Offending(Raw) = {} /\ Len(Raw) = 50000 /\ HasRun(Raw, 50)
  /\ result.is_valid /\ result.errors = <<>>

\* C4: when the normalized string has a character outside {A,U,G,C}, the
\* result is invalid and has exactly one alphabet error, which lists each
\* offending character once, in increasing order, and no other character.
C4_AlphabetError ==
  (Checked /\ Offending(Normalize(Raw)) # {})
    => /\ ~result.is_valid
       /\ Cardinality(ErrorsWith("Invalid bases are included")) = 1
       /\ \A e \in ErrorsWith("Invalid bases are included") :
            LET bases == result.errors[e].bases
            IN  /\ {bases[i] : i \in 1..Len(bases)} = Offending(Normalize(Raw))
                /\ \A i \in 1..(Len(bases) - 1) : Ord(bases[i]) < Ord(bases[i + 1])

C4_Witness ==
  /\ Checked /\ Cardinality(Offending(Normalize(Raw))) >= 2
  /\ \E e \in ErrorsWith("Invalid bases are included") :
       Len(result.errors[e].bases) >= 2

\* C5: the scan finds the true longest run; the repeat error is reported
\* exactly when that run is longer than 50, names its length, and is reported
\* with or without an alphabet error.
C5_RepeatError ==
  Checked =>
    LET s == Normalize(Raw)
        m == _check_repetitive_sequence(s)
        reps == ErrorsWith("An abnormal repetitive sequence was detected")
    IN  /\ HasRun(s, m) /\ ~HasRun(s, m + 1)
        /\ (reps # {} <=> HasRun(s, 51))
        /\ Cardinality(reps) <= 1
        /\ \A e \in reps :
             /\ HasRun(s, result.errors[e].n)
             /\ ~HasRun(s, result.errors[e].n + 1)

C5_Witness ==
  /\ Checked
  /\ ErrorsWith("Invalid bases are included") # {}
  /\ \E e \in ErrorsWith("An abnormal repetitive sequence was detected") :
       result.errors[e].n = 51

\* C6: the content errors come in the order length, alphabet, repeat, GC
\* range, and a string that fails several checks gets the error of each.
C6_ErrorOrder ==
  Checked =>
    /\ \A i, j \in 1..Len(result.errors) :
         i < j => /\ ContentRank(result.errors[i].msg) >= 1
                  /\ ContentRank(result.errors[i].msg) < ContentRank(result.errors[j].msg)
    /\ LET s == Normalize(Raw)
       IN  (Len(s) > 50000 /\ Offending(s) # {} /\ HasRun(s, 51))
             => Len(result.errors) = 3

C6_Witness ==
  /\ Checked /\ Len(result.errors) = 3
  /\ result.errors[1].msg = "The sequence length is too long"
  /\ result.errors[2].msg = "Invalid bases are included"
  /\ result.errors[3].msg = "An abnormal repetitive sequence was detected"

\* C7: the too-long error, naming 50000, is reported exactly when the
\* normalized string has more than 50000 characters, and the later checks
\* still report their errors for such a string.
C7_TooLong ==
  Checked =>
    LET s == Normalize(Raw)
        long == ErrorsWith("The sequence length is too long")
    IN  /\ (long # {} <=> Len(s) > 50000)
        /\ \A e \in long : result.errors[e] = ErrTooLong(50000)
        /\ (Len(s) > 50000 /\ Offending(s) # {})
             => ErrorsWith("Invalid bases are included") # {}
        /\ (Len(s) > 50000 /\ HasRun(s, 51))
             => ErrorsWith("An abnormal repetitive sequence was detected") # {}

C7_Witness ==
  /\ Checked /\ Len(Normalize(Raw)) = 50001
  /\ ErrorsWith("The sequence length is too long") # {}
  /\ ErrorsWith("Invalid bases are included") # {}

\* The number of characters of s equal to c.
RECURSIVE Occurrences(_, _)
Occurrences(s, c) ==
  IF s = <<>> THEN 0
  ELSE (IF Head(s) = c THEN 1 ELSE 0) + Occurrences(Tail(s), c)

\* The number of positions of s at which the pair d starts.
PairPositions(s, d) ==
  Cardinality({i \in 1..(Len(s) - 1) : s[i] = d[1] /\ s[i + 1] = d[2]})

\* The tracked pairs, in the order of the feature vector.
TrackedPairs ==
  <<<<"A", "A">>, <<"A", "U">>, <<"A", "G">>, <<"A", "C">>, <<"U", "U">>,
    <<"U", "G">>, <<"U", "C">>, <<"G", "G">>, <<"G", "C">>, <<"C", "C">>>>

\* C8: the feature vector has exactly 19 values for every string, and for
\* the empty string all of them are zero.
C8_NineteenFeatures ==
  Extracted =>
    /\ Len(result) = 19
    /\ (Raw = <<>> => \A k \in 1..Len(result) : result[k].num = 0)

\* C9: for a non-empty string the vector holds, in this order, the length,
\* the frequencies of A, U, G, C, the GC content, the AU, purine and pyrimidine
\* ratios, and the frequencies of the ten tracked pairs, each computed from
\* the (uppercased) string.
C9_FeatureOrder ==
  (Extracted /\ Len(Raw) > 0) =>
    LET s == Upper(Raw)
        n == Len(s)
        a == Occurrences(s, "A")
        u == Occurrences(s, "U")
        g == Occurrences(s, "G")
        c == Occurrences(s, "C")
        Is(k, num, den) == result[k].den > 0 /\ FracEq(result[k], Frac(num, den))
    IN  /\ Len(result) = 19
        /\ Is(1, n, 1)
        /\ Is(2, a, n) /\ Is(3, u, n) /\ Is(4, g, n) /\ Is(5, c, n)
        /\ Is(6, g + c, n) /\ Is(7, a + u, n)
        /\ Is(8, a + g, n) /\ Is(9, u + c, n)
        /\ \A k \in 1..10 :
             IF n > 1 THEN Is(9 + k, PairPositions(s, TrackedPairs[k]), n - 1)
             ELSE Is(9 + k, 0, 1)

C9_Witness ==
  /\ Extracted /\ Raw = <<"A", "U", "G">>
  /\ result[1] = Frac(3, 1) /\ result[4] = Frac(1, 3)
  /\ result[11] = Frac(1, 2) /\ result[15] = Frac(1, 2)
  /\ result[10] = Frac(0, 2)

\* C10: each pair's frequency is the number of positions at which the pair
\* starts, overlapping ones included, over length - 1; it lies in [0, 1]; and
\* it is 0 for a string of at most one character.
C10_DimerFrequency ==
  Extracted =>
    LET s == Upper(Raw)
        n == Len(s)
    IN  \A k \in 1..10 :
          LET f == result[9 + k]
          IN  /\ f.den > 0 /\ 0 <= f.num /\ f.num <= f.den
              /\ n > 1 => (f.num = PairPositions(s, TrackedPairs[k]) /\ f.den = n - 1)
              /\ n <= 1 => f.num = 0

C10_Witness ==
  /\ Extracted /\ Upper(Raw) = <<"A", "A", "A">>
  /\ result[10] = Frac(2, 2)
  /\ \A k \in 2..10 : result[9 + k] = Frac(0, 2)

\* A call of get_sequence_statistics has returned.
StatisticsDone == pc = "returned" /\ call.op = "get_sequence_statistics"

\* The call returned a statistics dict: not the empty one, and no exception.
HasStatistics == StatisticsDone /\ raised = "none" /\ "length" \in DOMAIN result

\* C12: for a non-empty string over {A,U,G,C} the four base counts sum to
\* the reported length and the four base frequencies sum to 1.
C12_CountConservation ==
  (/\ StatisticsDone /\ call.arg.type = "str"
   /\ Len(Raw) > 0 /\ Offending(Upper(Raw)) = {})
    => /\ HasStatistics
       /\ result.length = Len(Raw)
       /\ result.base_counts.A + result.base_counts.U
            + result.base_counts.G + result.base_counts.C = result.length
       /\ \A b \in {"A", "U", "G", "C"} :
            /\ result.base_frequencies[b].den = result.length
            /\ result.base_frequencies[b].num = Occurrences(Upper(Raw), b)
       /\ result.base_frequencies.A.num + result.base_frequencies.U.num
            + result.base_frequencies.G.num + result.base_frequencies.C.num
            = result.length

C12_Witness ==
  /\ HasStatistics /\ Raw = <<"A", "U", "G">>
  /\ result.base_counts = [A |-> 1, U |-> 1, G |-> 1, C |-> 0]
  /\ result.base_frequencies.G = Frac(1, 3)

\* x is a fraction in [0, 1].
InUnitInterval(x) == x.den > 0 /\ 0 <= x.num /\ x.num <= x.den

\* C13: in every statistics dict gc_content and au_content lie in [0, 1], and
\* they sum to 1 when the four base counts sum to the length.
C13_GcPlusAu ==
  HasStatistics =>
    /\ InUnitInterval(result.gc_content) /\ InUnitInterval(result.au_content)
    /\ result.gc_content.den = result.au_content.den
    /\ (result.base_counts.G + result.base_counts.C
          + result.base_counts.A + result.base_counts.U = result.length)
        => result.gc_content.num + result.au_content.num = result.gc_content.den

C13_Witness ==
  /\ HasStatistics /\ Raw = <<"A", "G", "C">>
  /\ result.gc_content = Frac(2, 3) /\ result.au_content = Frac(1, 3)

\* The number of characters of s that are no RNA base.
OffendingCount(s) ==
  Cardinality({i \in 1..Len(s) : s[i] \notin {"A", "U", "G", "C"}})

\* C14: for a non-empty string with characters outside the alphabet the
\* statistics are still returned: length counts every character, the base
\* counts only A, U, G and C, so they sum to length minus the number of the
\* other characters.
C14_StatisticsOfNonConformant ==
  (/\ StatisticsDone /\ call.arg.type = "str"
   /\ Len(Raw) > 0 /\ Offending(Upper(Raw)) # {})
    => /\ HasStatistics
       /\ result.length = Len(Raw)
       /\ \A b \in {"A", "U", "G", "C"} :
            result.base_counts[b] = Occurrences(Upper(Raw), b)
       /\ result.base_counts.A + result.base_counts.U
            + result.base_counts.G + result.base_counts.C
            = result.length - OffendingCount(Upper(Raw))

C14_Witness ==
  /\ HasStatistics /\ Raw = <<"A", "X", "G">>
  /\ result.length = 3
  /\ result.base_counts = [A |-> 1, U |-> 0, G |-> 1, C |-> 0]

\* C15: for an argument that validate_rna_sequence rejects for its shape
\* (None, no string, or blank), get_sequence_statistics returns the empty
\* dict.
C15_NoStatisticsForInputShapeErrors ==
  (StatisticsDone /\ (call.arg.type # "str" \/ Blank(Raw)))
    => (raised = "none" /\ DOMAIN result = {})

\* The quantity a feature name stands for, of the string s.
NamedQuantity(name, s) ==
  LET n == Len(s)
      a == Occurrences(s, "A")
      u == Occurrences(s, "U")
      g == Occurrences(s, "G")
      c == Occurrences(s, "C")
  IN  CASE name = <<"length">> -> Frac(n, 1)
        [] name = <<"G", "C", "_content">> -> Frac(g + c, n)
        [] name = <<"A", "U", "_ratio">> -> Frac(a + u, n)
        [] name = <<"purine", "_ratio">> -> Frac(a + g, n)
        [] name = <<"pyrimidine", "_ratio">> -> Frac(u + c, n)
        [] Len(name) = 2 /\ name[2] = "_freq" -> Frac(Occurrences(s, name[1]), n)
        [] Len(name) = 3 /\ name[3] = "_freq" ->
             IF n > 1 THEN Frac(PairPositions(s, <<name[1], name[2]>>), n - 1)
             ELSE Frac(0, 1)

\* There are 19 feature names, and name k stands for the quantity at
\* position k of the feature vector of a non-empty string.
C11_NamesInVectorOrder ==
  /\ Len(feature_names) = 19
  /\ (Extracted /\ Len(Raw) > 0) =>
       \A k \in 1..Len(feature_names) :
         /\ k <= Len(result)
         /\ result[k].den > 0
         /\ FracEq(result[k], NamedQuantity(feature_names[k], Upper(Raw)))

\* C11: the feature names are 19, name k names the quantity at position k of
\* the extractor's vector, and the names and the vector always have the same
\* length.
C11_FeatureNames ==
  /\ C11_NamesInVectorOrder
  /\ Extracted => Len(result) = Len(feature_names)

\* C16: the extractor's length and denominators are the length of the string:
\* with n characters of which m are outside {A,U,G,C}, the four base
\* frequencies sum to (n - m)/n, which is 1 exactly when m = 0.
C16_RawLengthDenominator ==
  (Extracted /\ Len(Raw) > 0) =>
    LET n == Len(Raw)
        m == OffendingCount(Upper(Raw))
        sum == result[2].num + result[3].num + result[4].num + result[5].num
    IN  /\ result[1] = Frac(n, 1)
        /\ \A k \in 2..19 : result[k].den \in {n, n - 1, 1}
        /\ \A k \in 2..9 : result[k].den = n
        /\ sum = n - m
        /\ (sum = n <=> m = 0)

C16_Witness ==
  /\ Extracted /\ Raw = <<"A", "X", "G">>
  /\ result[1] = Frac(3, 1)
  /\ result[2] = Frac(1, 3) /\ result[3] = Frac(0, 3)
  /\ result[4] = Frac(1, 3) /\ result[5] = Frac(0, 3)

\* A validator whose GC bounds no GC content satisfies.
StrictValidator ==
  [validator EXCEPT !.min_gc_content = Frac(1, 1), !.max_gc_content = Frac(0, 1)]

\* C17: the GC content of a non-empty string over {A,U,G,C} lies in [0, 1],
\* so no result has the GC-out-of-range error; and the GC check is made only
\* when there is no alphabet violation: with bounds that nothing satisfies, it
\* reports exactly the strings without one.
C17_GcNeverOutOfRange ==
  Checked =>
    LET s == Normalize(Raw)
        gc == _calculate_gc_content(s)
    IN  /\ ErrorsWith("The GC content is out of range") = {}
        /\ Offending(s) = {} =>
             /\ InUnitInterval(gc)
             /\ gc.den = Len(s)
             /\ gc.num + Cardinality({i \in 1..Len(s) : s[i] \in {"A", "U"}}) = Len(s)
        /\ (GcErrors(StrictValidator, s) # <<>>) <=> (Offending(s) = {})

C17_Witness ==
  /\ Checked /\ Normalize(Raw) = <<"G", "C", "G">>
  /\ _calculate_gc_content(Normalize(Raw)) = Frac(3, 3)
  /\ result.is_valid

\* C18: a call of validate_rna_sequence or _extract_features returns what
\* every earlier call with the same argument returned, whatever calls were
\* made in between.
C18_Deterministic ==
  pc = "returned" =>
    \A k \in 1..Len(log) :
      log[k].call = call => (log[k].result = result /\ log[k].raised = raised)

C18_Witness ==
  /\ pc = "returned" /\ Len(log) >= 2
  /\ call.op = "validate_rna_sequence" /\ call.arg.type = "str"
  /\ ~result.is_valid
  /\ log[1].call = call /\ log[1].result = result
  /\ log[2].call.op = "_extract_features"

\* C19: normalizing (trimming, then uppercasing) a normalized string changes
\* nothing, in validate_rna_sequence and in the request model's validator.
C19_NormalizeIdempotent ==
  (Validated /\ call.arg.type = "str") =>
    LET once == Normalize(Raw)
        checked == RNASequence_validate_rna_sequence(Raw)
    IN  /\ Normalize(once) = once
        /\ "returns" \in DOMAIN checked =>
             /\ checked.returns = once
             /\ RNASequence_validate_rna_sequence(checked.returns) = checked

C19_Witness ==
  /\ Validated /\ call.arg.type = "str"
  /\ Raw = <<" ", "a", "G">>
  /\ Normalize(Raw) = <<"A", "G">>
  /\ RNASequence_validate_rna_sequence(Raw) = [returns |-> <<"A", "G">>]

\* C20: for a string argument validate_rna_sequence, get_sequence_statistics
\* and _extract_features return a value and raise nothing; a string that is
\* not valid RNA is reported by the error list alone.
C20_NoExceptionForStrings ==
  (/\ pc = "returned"
   /\ call.op \in {"validate_rna_sequence", "get_sequence_statistics",
                   "_extract_features"}
   /\ call.arg.type = "str")
    => /\ raised = "none"
       /\ call.op = "validate_rna_sequence" =>
            /\ DOMAIN result = {"is_valid", "errors"}
            /\ (Blank(Raw) \/ Offending(Normalize(Raw)) # {}) =>
                 (~result.is_valid /\ result.errors # <<>>)
       /\ call.op = "get_sequence_statistics" =>
            (DOMAIN result = {} <=> Raw = <<>>)
       /\ call.op = "_extract_features" => Len(result) \in {19, 20}

C20_Witness ==
  /\ Extracted /\ Raw = <<"X">> /\ raised = "none"
  /\ Len(result) = 19
  /\ \A k \in 10..19 : result[k] = Frac(0, 1)

\* A call of validate_sequence_name has returned, of None or of a string.
NameDone ==
  /\ pc = "returned"
  /\ call.op = "validate_sequence_name"
  /\ call.arg.type \in {"NoneType", "str"}

\* The name passed to the call (None as the empty name).
Name == IF call.arg.type = "str" THEN Text(call.arg.expr) ELSE <<>>

\* The nine characters the sequence-name check is said to reject.
NineCharacters == {"<", ">", ":", "\"", "/", "\\", "|", "?", "*"}

\* C21, without the backslash: a name that is None or blank is valid, and a
\* name that is not blank and has no backslash is valid iff it has at most
\* 100 characters and none of < > : " / | ? *.
C21_NameWithoutBackslash ==
  (NameDone /\ ~Search({"\\"}, Name)) =>
    (result.is_valid <=>
       \/ Blank(Name)
       \/ Len(Name) <= 100 /\ ~Search(NineCharacters, Name))

\* C21: validate_sequence_name takes None and a blank name as valid, and a
\* name that is not blank as valid iff it has at most 100 characters and
\* none of the nine characters < > : " / \ | ? *.
C21_SequenceName ==
  NameDone =>
    (result.is_valid <=>
       \/ Blank(Name)
       \/ Len(Name) <= 100 /\ ~Search(NineCharacters, Name))

\* A call of validate_metadata has returned.
MetadataDone == pc = "returned" /\ call.op = "validate_metadata"

\* The item is one the metadata check accepts: its key is a string of at
\* most 100 characters, and its value, if a string, has at most 1000.
GoodItem(item) ==
  /\ item.key.type = "str"
  /\ Len(Text(item.key.expr)) <= 100
  /\ item.value.type = "str" => Len(Text(item.value.expr)) <= 1000

\* C22: validate_metadata accepts a dict iff every key is a string of at
\* most 100 characters and every value that is a string has at most 1000
\* characters (a value of another type is not measured); None is valid, and a
\* value that is no dict is invalid with a single error.
C22_Metadata ==
  MetadataDone =>
    /\ result.is_valid <=> Len(result.errors) = 0
    /\ call.arg.type = "NoneType" => result.is_valid
    /\ call.arg.type = "int" => ~result.is_valid /\ Len(result.errors) = 1
    /\ call.arg.type = "dict" =>
         (result.is_valid <=>
            \A i \in 1..Len(call.arg.items) : GoodItem(call.arg.items[i]))

C22_Witness ==
  /\ MetadataDone
  /\ call.arg.type = "dict"
  /\ Len(call.arg.items) = 2
  /\ call.arg.items[1].value = [type |-> "int", value |-> 7]
  /\ call.arg.items[2].key = [type |-> "str", expr |-> <<Lit(<<"k">>, 100)>>]
  /\ call.arg.items[2].value = [type |-> "str", expr |-> <<Lit(<<"v">>, 1001)>>]
  /\ ~result.is_valid
  /\ Len(result.errors) = 1

\* A call of suggest_corrections has returned.
SuggestDone == pc = "returned" /\ call.op = "suggest_corrections"

\* The lowercase letters of the model's characters.
Lowercase == {"a", "t"}

\* The number of characters of s before position i that are no whitespace.
Kept(s, i) == Cardinality({j \in 1..(i - 1) : ~IsSpace(s[j])})

\* The findings that apply to the string s, in the order they are given.
Findings(s) ==
  (IF Search({"T", "t"}, s) THEN <<"T", "T preview">> ELSE <<>>)
  \o (IF Search(Lowercase, s) THEN <<"uppercase">> ELSE <<>>)
  \o (IF \E i \in 1..Len(s) : IsSpace(s[i]) THEN <<"space", "space preview">> ELSE <<>>)

\* C23: suggest_corrections returns the T finding, with a preview in which
\* every T (and t) is U, iff the string has T or t; then the uppercase
\* recommendation iff it has a lowercase letter; then the whitespace finding,
\* with a preview without the whitespace, iff it has whitespace.  The list
\* is empty iff none applies, and the validator is as it was.
C23_SuggestCorrections ==
  (SuggestDone /\ call.arg.type = "str") =>
    LET s == Raw
        expected == Findings(s)
    IN  /\ raised = "none"
        /\ validator = RNAValidator
        /\ Len(result) = Len(expected)
        /\ (result = <<>>) <=>
             ~(\/ Search({"T", "t"}, s)
               \/ Search(Lowercase, s)
               \/ \E i \in 1..Len(s) : IsSpace(s[i]))
        /\ \A k \in 1..Len(result) :
             /\ expected[k] = "T" => result[k] = SuggestT
             /\ expected[k] = "uppercase" => result[k] = SuggestUpper
             /\ expected[k] = "space" => result[k] = SuggestSpace
             /\ expected[k] = "T preview" =>
                  /\ Len(result[k].corrected) = Len(s)
                  /\ \A i \in 1..Len(s) :
                       result[k].corrected[i] =
                         (CASE s[i] \in {"T", "t"} -> "U"
                            [] s[i] = "a" -> "A"
                            [] OTHER -> s[i])
             /\ expected[k] = "space preview" =>
                  /\ Len(result[k].corrected) = Kept(s, Len(s) + 1)
                  /\ \A i \in 1..Len(s) :
                       ~IsSpace(s[i]) => result[k].corrected[Kept(s, i) + 1] = s[i]

C23_Witness ==
  /\ SuggestDone
  /\ call.arg.type = "str"
  /\ Raw = <<"t", " ", "A">>
  /\ result = <<SuggestT, Example(<<"U", " ", "A">>), SuggestUpper,
                SuggestSpace, Example(<<"t", "A">>)>>

\* top_k is an integer in 1..50.
TopKInRange(top_k) ==
  top_k.type = "int" /\ top_k.value >= 1 /\ top_k.value <= 50

\* similarity_threshold is a number in [0.0, 1.0].
ThresholdInRange(x) ==
  /\ x.type \in {"int", "float"}
  /\ ~FracLess(Number(x), Frac(0, 1))
  /\ ~FracLess(Frac(1, 1), Number(x))

\* C25, of the request model: a request is accepted iff its top_k, 5 if
\* absent, is in 1..50 and its similarity_threshold, 0.5 if absent, is in
\* [0.0, 1.0], and the accepted request holds these values.
C25_RequestRanges ==
  (pc = "returned" /\ call.op = "VectorSearchRequest") =>
    LET k == IF call.top_k.type = "absent"
             THEN [type |-> "int", value |-> 5] ELSE call.top_k
        x == IF call.similarity_threshold.type = "absent"
             THEN [type |-> "float", value |-> Frac(1, 2)]
             ELSE call.similarity_threshold
    IN  /\ raised = "none" <=> (TopKInRange(k) /\ ThresholdInRange(x))
        /\ raised = "none" =>
             /\ result.top_k = k.value
             /\ FracEq(result.similarity_threshold, Number(x))

\* C25: every check of the search parameters accepts top_k iff it is an
\* integer in 1..50 and similarity_threshold iff it is in [0.0, 1.0].
C25_SearchParameterRanges ==
  /\ C25_RequestRanges
  /\ (pc = "returned" /\ call.op = "validate_search_params") =>
       (result.is_valid <=>
          (TopKInRange(call.top_k) /\ ThresholdInRange(call.similarity_threshold)))

\* The length and the GC content of the statistics are those of the
\* normalized string that validate_rna_sequence checks.
SameAsNormalized ==
  LET cleaned_sequence == Normalize(Raw)
  IN  /\ result.length = Len(cleaned_sequence)
      /\ FracEq(result.gc_content, _calculate_gc_content(cleaned_sequence))

\* C30, of the strings that neither begin nor end with whitespace: the
\* statistics measure the uppercased string, which is the normalized one.
C30_TrimmedSameAsNormalized ==
  (HasStatistics /\ call.arg.type = "str" /\ Strip(Raw) = Raw) => SameAsNormalized

\* C30: for every string, the length and the GC content that
\* get_sequence_statistics reports are those of the trimmed, uppercased
\* string that validate_rna_sequence checks.
C30_StatisticsOfNormalized ==
  (HasStatistics /\ call.arg.type = "str") => SameAsNormalized

\* Thread t has returned from a call of the validator.
ThreadReturned(t) ==
  threads[t].pc = "returned" /\ threads[t].call.op \in ValidatorOps

\* What the call c returns when it runs alone, on a new validator.
Alone(c) == Apply(RNAValidator, c)

\* C24: no operation of the validator changes its fields, and under every
\* interleaving of the threads' calls on the shared validator, calls with
\* malformed input among them, each call returns what it returns alone.
C24_NoSharedState ==
  /\ validator = RNAValidator
  /\ \A t \in Threads : ThreadReturned(t) => threads[t].result = Alone(threads[t].call)

C24_Witness ==
  /\ ThreadReturned(1)
  /\ threads[1].call = [op |-> "validate_rna_sequence", arg |-> [type |-> "int", value |-> 7]]
  /\ threads[2].pc = "returned"
  /\ threads[2].call =
       [op |-> "validate_rna_sequence", arg |-> [type |-> "str", expr |-> <<Lit(<<"X">>, 1)>>]]
  /\ ~threads[2].result.is_valid

\* Thread t has returned, with a classifier, from get_ml_classifier_instance.
Got(t) ==
  /\ threads[t].pc = "returned"
  /\ threads[t].call.op = "get_ml_classifier_instance"
  /\ threads[t].raised = "none"

\* C27: under every interleaving of calls of get_ml_classifier_instance, a
\* classifier is constructed (its model loaded or trained) at most once, and
\* every caller is given the same instance.
C27_ConstructedOnce ==
  /\ constructed <= 1
  /\ \A t1 \in Threads, t2 \in Threads :
       (Got(t1) /\ Got(t2)) => threads[t1].result = threads[t2].result

\* A call of RNAVectorDB.search_similar has returned.
Searched ==
  /\ pc = "returned"
  /\ call.op = "search_similar"
  /\ call.self.type = "RNAVectorDB"

\* The matches the index returned to the call, in its order.
Matches == IF call.results = EmptyDict THEN <<>> ELSE call.results.matches

\* The positions of the matches whose score is at least the threshold.
PassingPositions(matches, x) == {k \in 1..Len(matches) : ~FracLess(matches[k].score, x)}

\* C26: search_similar returns the matches of the index whose score is at
\* least similarity_threshold, and no other, in the order of the index; each
\* carries the identifier, the score and the metadata of its match;
\* total_found is the number of results, and is at most top_k.
C26_SearchSimilar ==
  Searched =>
    LET kept == PassingPositions(Matches, call.similarity_threshold)
    IN  /\ raised = "none"
        /\ Len(result.results) = Cardinality(kept)
        /\ \A k \in kept :
             LET r == result.results[Cardinality({j \in kept : j <= k})]
             IN  /\ r.sequence_id = Matches[k].id
                 /\ r.similarity = Matches[k].score
                 /\ r.similarity_score = Matches[k].score
                 /\ r.metadata = Matches[k].metadata
        /\ result.total_found = Len(result.results)
        /\ result.total_found <= call.top_k

C26_Witness ==
  /\ Searched
  /\ call.top_k = 5
  /\ Len(Matches) = 3
  /\ call.similarity_threshold = Frac(1, 2)
  /\ Matches[1].id = "s3" /\ Matches[1].score = Frac(1, 1)
  /\ Matches[2].id = "s1" /\ Matches[2].score = Frac(1, 2)
  /\ Matches[3].score = Frac(0 - 1, 2)
  /\ result.total_found = 2
  /\ result.results[2].sequence_id = "s1"

\* C28, the fallback: once a construction of RNAVectorDB has failed, the
\* mock is stored and returned, and no construction is attempted again.
C28_MockStoredOnce ==
  _vectordb_instance.type = "MockVectorDB" =>
    /\ attempts = 1
    /\ _vectordb_instance = MockVectorDB(1)
    /\ (pc = "returned" /\ call.op = "get_vectordb_instance") =>
         (raised = "none" /\ result = _vectordb_instance)

\* The operations the handlers invoke on the vector store.
RouteOperations ==
  {"get_collection_stats", "search_similar", "add_sequence", "delete_sequence",
   "update_sequence_metadata"}

\* C28: once a construction of RNAVectorDB has failed, the mock is stored and
\* returned and no construction is attempted again, and the mock has every
\* operation the handlers invoke on the vector store.
C28_MockFallback ==
  /\ C28_MockStoredOnce
  /\ _vectordb_instance.type = "MockVectorDB" =>
       RouteOperations \subseteq Methods(_vectordb_instance)

\* The handler update_sequence has answered.
Updated == pc = "returned" /\ call.op = "update_sequence"

\* C29, the rejections: a request whose sequence is invalid is answered 400
\* (422 if the request model refuses it), and one whose deletion failed 404,
\* with nothing deleted and nothing added.
C29_RejectedUnchanged ==
  (Updated /\ result.status \in {400, 404, 422}) => collection = call.stored

\* C29: whenever update_sequence answers with an error, the stored
\* sequences are those stored before the request.
C29_AllOrNothing ==
  (Updated /\ result.status >= 400) => collection = call.stored

====
